---- MODULE Spec2Model ----
(***************************************************************************)
(* Model of pxdatautil.py: path construction for the monthly GP            *)
(* prescribing data files, the month-range path generator, the three CSV   *)
(* loaders and the file existence checker.                                 *)
(*                                                                         *)
(* Python strings are TLA+ strings (concatenated with \o), Python lists    *)
(* are sequences, an AssertionError is a value of err ("range", "year",    *)
(* "month") and the interpreter's position is pc plus the call stack.      *)
(***************************************************************************)
EXTENDS Integers, Sequences, FiniteSets, TLC

VARIABLES
    pc,                 \* "idle", "range_assert", "loop", "map", "check", "returned", "raised"
    stack,              \* call stack, outermost function first
    args,               \* arguments of the outermost call
    current_year,       \* locals of get_data_filepath_prefixes
    current_month,
    filepaths,
    prefixes,           \* local of the get_*_data_filepaths function on the stack
    address_filepaths,  \* locals of check_data
    chems_filepaths,
    pxdata_filenames,
    i,                  \* loop index of check_data (0-based, as in range())
    j,                  \* which of the three file_check calls of iteration i is next
    checked,            \* every os.path.isfile call so far: [path, exists]
    stdout,             \* every line printed so far
    calls,              \* number of get_file_path_prefix calls made so far
    file,               \* the CSV file the loader reads
    result,             \* return value of the outermost call
    err                 \* "none", or the assertion / I/O error that was raised

vars == <<pc, stack, args, current_year, current_month, filepaths, prefixes,
          address_filepaths, chems_filepaths, pxdata_filenames, i, j,
          checked, stdout, calls, file, result, err>>

---------------------------------------------------------------------------
(* Program constants *)

root_data_dir == "./full_data/"

MinYear == 2010
MaxYear == 3000
ExampleYear == 2013

MonthNames == <<"January", "February", "March", "April", "May", "June", "July",
                "August", "September", "October", "November", "December">>

addresses_col_names == <<"Year-Month", "PracticeCode", "PracticeName", "Addr1",
                         "Addr2", "Addr3", "Addr4", "PostCode">>
chem_col_names == <<"ChemCode", "ChemName">>
pxdata_col_names == <<"SHA", "PCT", "PracticeCode", "BNFCode", "BNFName",
                      "LineCountDispensed", "NetCost", "ActualCost",
                      "QuantityDispensed", "Year-Month">>

AddressSuffix == "ADDR BNFT.CSV"
ChemsSuffix == "CHEM SUBS.CSV"
PrescriptionSuffix == "PDPI BNFT.CSV"

(* Bounds of the model *)

YearSpan == 1       \* range calls draw years from MaxYear - YearSpan .. MaxYear + 1
MonthSlack == 1     \* months are drawn from 1 - MonthSlack .. 12 + MonthSlack

---------------------------------------------------------------------------
(* String formatting, as str.format does it *)

DigitStr(d) ==
    CASE d = 0 -> "0" [] d = 1 -> "1" [] d = 2 -> "2" [] d = 3 -> "3" [] d = 4 -> "4"
      [] d = 5 -> "5" [] d = 6 -> "6" [] d = 7 -> "7" [] d = 8 -> "8" [] d = 9 -> "9"

RECURSIVE str(_)
\* "{0}".format(n) / str(n) of an int: decimal digits, "-" for a negative
str(n) ==
    IF n < 0 THEN "-" \o str(-n)
    ELSE IF n < 10 THEN DigitStr(n)
    ELSE str(n \div 10) \o DigitStr(n % 10)

RECURSIVE PadLeft(_, _, _)
\* "{:c>w}": right-align s in a field of width w filled with c
PadLeft(s, w, c) == IF Len(s) >= w THEN s ELSE PadLeft(c \o s, w, c)

\* the month written without its padding
Format02_unpadded(n) == str(n)

\* "{1:0>2}".format(.., month)
Format02(n) == PadLeft(str(n), 2, "0")

\* dt.datetime.strptime(str(month), '%m').strftime('%B')
month_name(month) == MonthNames[month]

---------------------------------------------------------------------------
(* Validation and the single-month path functions.  A call's outcome is    *)
(* [err, val]: err = "none" and the returned value, or the assertion that  *)
(* failed.                                                                 *)

Ok(v) == [err |-> "none", val |-> v]
Raise(e) == [err |-> e, val |-> ""]

\* the lower bound taken as exclusive
validate_year_exclusive(year) == year > MinYear /\ year <= MaxYear

\* the condition of the assert: TRUE when the assertion passes
validate_year(year) == year >= MinYear /\ year <= MaxYear

validate_month(month) == month > 0 /\ month < 13

data_dir(year, month) ==
    str(year) \o "_" \o Format02(month) \o "_" \o month_name(month) \o "/"

get_file_path_prefix(year, month) ==
    IF ~validate_year(year) THEN Raise("year")
    ELSE IF ~validate_month(month) THEN Raise("month")
    ELSE Ok(root_data_dir \o data_dir(year, month) \o "T" \o str(year) \o Format02(month))

WithSuffix(r, suffix) == IF r.err = "none" THEN Ok(r.val \o suffix) ELSE r

get_address_data_filepath(year, month) ==
    WithSuffix(get_file_path_prefix(year, month), AddressSuffix)

get_chems_data_filepath(year, month) ==
    WithSuffix(get_file_path_prefix(year, month), ChemsSuffix)

get_prescription_data_filepath(year, month) ==
    WithSuffix(get_file_path_prefix(year, month), PrescriptionSuffix)

---------------------------------------------------------------------------
(* The CSV loaders.  A file is the sequence of its rows, a row the sequence *)
(* of its fields; a loaded table is the sequence of its records, a record   *)
(* the sequence of <<column name, value>> in column order.                  *)

\* the file at a path: absent, or present with its rows
NoFile == [exists |-> FALSE, rows |-> <<>>]
FileOf(rows) == [exists |-> TRUE, rows |-> rows]

\* pd.read_csv(path, names = names, skiprows = skiprows, index_col = False):
\* names given, so no row is read as a header; the first skiprows rows are dropped
read_csv(rows, names, skiprows) ==
    [r \in 1..(IF Len(rows) > skiprows THEN Len(rows) - skiprows ELSE 0) |->
        [c \in 1..Len(names) |-> <<names[c], rows[r + skiprows][c]>>]]

\* a cell of a Year-Month column: the number read from it, or text that is no number
Num(n) == [num |-> TRUE, n |-> n]
Text == [num |-> FALSE, n |-> 0]

\* pd.to_datetime(v, format = '%Y%m') of one cell: four digits of year, two of month
DateOk(v) == v.num /\ v.n % 100 >= 1 /\ v.n % 100 <= 12
to_datetime(v) == <<v.n \div 100, v.n % 100, 1>>

\* table[col] = pd.to_datetime(table[col], format = '%Y%m'), col given by position
ParseColumn(table, col) ==
    [r \in 1..Len(table) |->
        [c \in 1..Len(table[r]) |->
            IF c = col THEN <<table[r][c][1], to_datetime(table[r][c][2])>>
            ELSE table[r][c]]]

ColumnOk(table, col) == \A r \in 1..Len(table) : DateOk(table[r][col][2])

address_skiprows == 0
chems_skiprows == 1
pxdata_skiprows == 1

load_address_data(year, month, f) ==
    LET path == get_address_data_filepath(year, month)
        addresses == read_csv(f.rows, addresses_col_names, address_skiprows)
    IN  IF path.err # "none" THEN path
        ELSE IF ~f.exists THEN Raise("io")
        ELSE IF ~ColumnOk(addresses, 1) THEN Raise("parse")
        ELSE Ok(ParseColumn(addresses, 1))

\* the chemicals file read without skiprows: its header line kept as a record
load_chems_data_keeping_header(year, month, f) ==
    LET path == get_chems_data_filepath(year, month)
        chems == read_csv(f.rows, chem_col_names, 0)
    IN  IF path.err # "none" THEN path
        ELSE IF ~f.exists THEN Raise("io")
        ELSE Ok(chems)

load_chems_data(year, month, f) ==
    LET path == get_chems_data_filepath(year, month)
        chems == read_csv(f.rows, chem_col_names, chems_skiprows)
    IN  IF path.err # "none" THEN path
        ELSE IF ~f.exists THEN Raise("io")
        ELSE Ok(chems)

load_prescription_data(year, month, f) ==
    LET path == get_prescription_data_filepath(year, month)
        pxdata == read_csv(f.rows, pxdata_col_names, pxdata_skiprows)
    IN  IF path.err # "none" THEN path
        ELSE IF ~f.exists THEN Raise("io")
        ELSE IF ~ColumnOk(pxdata, 10) THEN Raise("parse")
        ELSE Ok(ParseColumn(pxdata, 10))

---------------------------------------------------------------------------
(* The range generator, step by step *)

\* the months compared with < in place of <=
range_ok_strict(year_from, month_from, year_to, month_to) ==
    year_from < year_to \/ (year_from = year_to /\ month_from < month_to)

\* the condition of the assert of get_data_filepath_prefixes
range_ok(year_from, month_from, year_to, month_to) ==
    year_from < year_to \/ (year_from = year_to /\ month_from <= month_to)

\* the negated condition of the while loop
loop_done(cy, cm, year_to, month_to) == cy = year_to /\ cm = month_to + 1

\* the month wrapped to 1 without the carry into the year
Advance_no_carry(cy, cm) ==
    IF cm + 1 > 12 THEN [year |-> cy, month |-> 1]
    ELSE [year |-> cy, month |-> cm + 1]

\* current_month += 1, with the carry into current_year
Advance(cy, cm) ==
    IF cm + 1 > 12 THEN [year |-> cy + 1, month |-> 1]
    ELSE [year |-> cy, month |-> cm + 1]

\* the paths built in reverse order
MapSuffix_reversed(ps, suffix) == [n \in 1..Len(ps) |-> ps[Len(ps) + 1 - n] \o suffix]

\* [p + suffix for p in prefixes]
MapSuffix(ps, suffix) == [n \in 1..Len(ps) |-> ps[n] \o suffix]

SuffixOf(f) ==
    CASE f = "get_address_data_filepaths" -> AddressSuffix
      [] f = "get_chems_data_filepaths" -> ChemsSuffix
      [] f = "get_prescription_data_filepaths" -> PrescriptionSuffix

\* the chemicals file checked before the address file
CheckOrder_swapped(n) ==
    <<chems_filepaths[n + 1], address_filepaths[n + 1], pxdata_filenames[n + 1]>>

\* the three file_check calls of iteration n (0-based) of check_data, in order
CheckOrder(n) ==
    <<address_filepaths[n + 1], chems_filepaths[n + 1], pxdata_filenames[n + 1]>>

Top == stack[Len(stack)]
Pop == SubSeq(stack, 1, Len(stack) - 1)

---------------------------------------------------------------------------
(* Inputs *)

MaxRows == 3        \* a CSV file has at most MaxRows rows
MaxMissing == 1     \* at most MaxMissing of the files check_data looks for are absent

MonthsIn == (1 - MonthSlack)..(12 + MonthSlack)
RangeYears == {MinYear - 1} \cup ((MaxYear - YearSpan)..(MaxYear + 1))
\* check_data, whose runs branch on every file's existence, is called with the
\* last valid year and the two invalid years next to the bounds
CheckYears == {MinYear - 1, MaxYear, MaxYear + 1}
SingleYears == RangeYears \cup (MinYear..(MinYear + YearSpan)) \cup {ExampleYear}

SingleFns == {"get_address_data_filepath", "get_chems_data_filepath",
              "get_prescription_data_filepath"}
LoadFns == {"load_address_data", "load_chems_data", "load_prescription_data"}
MapFns == {"get_address_data_filepaths", "get_chems_data_filepaths",
           "get_prescription_data_filepaths"}

\* rows of the three kinds of file; the first of ChemRows and of PxRows is the
\* header line the published chemicals and prescription files start with
AddressRows == {<<Num(201304), "A81001", "THE DENSHAM SURGERY", "THE HEALTH CENTRE",
                  "LAWSON STREET", "STOCKTON", "CLEVELAND", "TS18 1HU">>,
                <<Num(201304), "A81002", "QUEENS PARK MEDICAL CENTRE", "QUEENS PARK",
                  "FARRER STREET", "STOCKTON ON TEES", "CLEVELAND", "TS18 2AW">>}
ChemRows == {<<"CHEM SUB", "NAME">>, <<"0101010A0", "Alexitol Sodium">>,
             <<"0101010B0", "Almasilate">>}
PxRows == {<<" SHA", "PCT", "PRACTICE", "BNF CODE", "BNF NAME", "ITEMS", "NIC",
             "ACT COST", "QUANTITY", Text>>,
           <<"Q30", "5D7", "A86003", "0101010G0AAABAB", "Co-Magaldrox_Susp",
             3, 10, 9, 1500, Num(201304)>>,
           <<"Q30", "5D7", "A86003", "0101021B0AAAHAH", "Alginate_Raft-Forming",
             2, 6, 5, 1000, Num(201305)>>}

RECURSIVE SeqsUpTo(_, _)
SeqsUpTo(S, n) ==
    IF n = 0 THEN {<<>>}
    ELSE LET shorter == SeqsUpTo(S, n - 1)
         IN  shorter \cup {Append(q, x) : q \in shorter, x \in S}

RowsOf(f) ==
    CASE f = "load_address_data" -> AddressRows
      [] f = "load_chems_data" -> ChemRows
      [] f = "load_prescription_data" -> PxRows

FilesOf(f) == {NoFile} \cup {FileOf(rows) : rows \in SeqsUpTo(RowsOf(f), MaxRows)}

---------------------------------------------------------------------------
(* The state machine *)

None == "None"

Init ==
    /\ pc = "idle"
    /\ stack = <<>>
    /\ args = [f |-> "none"]
    /\ current_year = 0
    /\ current_month = 0
    /\ filepaths = <<>>
    /\ prefixes = <<>>
    /\ address_filepaths = <<>>
    /\ chems_filepaths = <<>>
    /\ pxdata_filenames = <<>>
    /\ i = 0
    /\ j = 1
    /\ checked = <<>>
    /\ stdout = <<>>
    /\ calls = 0
    /\ file = NoFile
    /\ result = None
    /\ err = "none"

Finish(r) ==
    /\ pc' = IF r.err = "none" THEN "returned" ELSE "raised"
    /\ result' = IF r.err = "none" THEN r.val ELSE None
    /\ err' = r.err
    /\ stack' = <<>>

\* a call of get_file_path_prefix(year, month)
CallGetFilePathPrefix(year, month) ==
    /\ pc = "idle"
    /\ args' = [f |-> "get_file_path_prefix", year |-> year, month |-> month]
    /\ calls' = calls + 1
    /\ Finish(get_file_path_prefix(year, month))
    /\ UNCHANGED <<current_year, current_month, filepaths, prefixes, address_filepaths,
                   chems_filepaths, pxdata_filenames, i, j, checked, stdout, file>>

SingleOutcome(f, year, month) ==
    CASE f = "get_address_data_filepath" -> get_address_data_filepath(year, month)
      [] f = "get_chems_data_filepath" -> get_chems_data_filepath(year, month)
      [] f = "get_prescription_data_filepath" -> get_prescription_data_filepath(year, month)

\* a call of one of the three single-month path functions
CallGetDataFilepath(f, year, month) ==
    /\ pc = "idle"
    /\ args' = [f |-> f, year |-> year, month |-> month]
    /\ calls' = calls + 1
    /\ Finish(SingleOutcome(f, year, month))
    /\ UNCHANGED <<current_year, current_month, filepaths, prefixes, address_filepaths,
                   chems_filepaths, pxdata_filenames, i, j, checked, stdout, file>>

LoadOutcome(f, year, month, csv) ==
    CASE f = "load_address_data" -> load_address_data(year, month, csv)
      [] f = "load_chems_data" -> load_chems_data(year, month, csv)
      [] f = "load_prescription_data" -> load_prescription_data(year, month, csv)

\* a call of one of the three loaders, with the file found at the computed path
CallLoad(f, year, month, csv) ==
    /\ pc = "idle"
    /\ args' = [f |-> f, year |-> year, month |-> month]
    /\ file' = csv
    /\ calls' = calls + 1
    /\ Finish(LoadOutcome(f, year, month, csv))
    /\ UNCHANGED <<current_year, current_month, filepaths, prefixes, address_filepaths,
                   chems_filepaths, pxdata_filenames, i, j, checked, stdout>>

PrefixesFn == "get_data_filepath_prefixes"
RangeFns == {PrefixesFn} \cup MapFns \cup {"check_data"}

\* the frames a call of f pushes before the assert of get_data_filepath_prefixes runs
FramesOf(f) ==
    IF f = PrefixesFn THEN <<f>>
    ELSE IF f \in MapFns THEN <<f, PrefixesFn>>
    ELSE <<f, "get_address_data_filepaths", PrefixesFn>>

\* a call of get_data_filepath_prefixes, of a get_*_data_filepaths function or of
\* check_data: control reaches the assert of get_data_filepath_prefixes
CallRange(f, year_from, month_from, year_to, month_to) ==
    /\ pc = "idle"
    /\ args' = [f |-> f, year_from |-> year_from, month_from |-> month_from,
                year_to |-> year_to, month_to |-> month_to]
    /\ stack' = FramesOf(f)
    /\ pc' = "range_assert"
    /\ UNCHANGED <<current_year, current_month, filepaths, prefixes, address_filepaths,
                   chems_filepaths, pxdata_filenames, i, j, checked, stdout, calls,
                   file, result, err>>

\* get_data_filepath_prefixes: the assert, then the three initialisations
RangeAssert ==
    /\ pc = "range_assert"
    /\ IF range_ok(args.year_from, args.month_from, args.year_to, args.month_to)
       THEN /\ filepaths' = <<>>
            /\ current_year' = args.year_from
            /\ current_month' = args.month_from
            /\ pc' = "loop"
            /\ UNCHANGED <<stack, result, err>>
       ELSE /\ pc' = "raised"
            /\ err' = "range"
            /\ stack' = <<>>
            /\ UNCHANGED <<filepaths, current_year, current_month, result>>
    /\ UNCHANGED <<args, prefixes, address_filepaths, chems_filepaths, pxdata_filenames,
                   i, j, checked, stdout, calls, file>>

\* one iteration of the while loop: the call of get_file_path_prefix, which may
\* raise, the append and the advance of current_month / current_year
LoopIteration ==
    /\ pc = "loop"
    /\ ~loop_done(current_year, current_month, args.year_to, args.month_to)
    /\ calls' = calls + 1
    /\ LET r == get_file_path_prefix(current_year, current_month)
           next == Advance(current_year, current_month)
       IN  IF r.err = "none"
           THEN /\ filepaths' = Append(filepaths, r.val)
                /\ current_month' = next.month
                /\ current_year' = next.year
                /\ UNCHANGED <<pc, stack, err>>
           ELSE /\ pc' = "raised"
                /\ err' = r.err
                /\ stack' = <<>>
                /\ UNCHANGED <<filepaths, current_month, current_year>>
    /\ UNCHANGED <<args, prefixes, address_filepaths, chems_filepaths, pxdata_filenames,
                   i, j, checked, stdout, file, result>>

\* the loop condition is false: return filepaths, to the caller on the stack if any
LoopReturn ==
    /\ pc = "loop"
    /\ loop_done(current_year, current_month, args.year_to, args.month_to)
    /\ stack' = Pop
    /\ IF Len(stack) = 1
       THEN /\ pc' = "returned"
            /\ result' = filepaths
            /\ UNCHANGED prefixes
       ELSE /\ pc' = "map"
            /\ prefixes' = filepaths
            /\ UNCHANGED result
    /\ UNCHANGED <<args, current_year, current_month, filepaths, address_filepaths,
                   chems_filepaths, pxdata_filenames, i, j, checked, stdout, calls,
                   file, err>>

\* a get_*_data_filepaths function appends its suffix to every prefix and returns;
\* inside check_data the list is assigned and the next statement starts
MapReturn ==
    /\ pc = "map"
    /\ LET f == Top
           paths == MapSuffix(prefixes, SuffixOf(f))
       IN  IF Len(stack) = 1
           THEN /\ pc' = "returned"
                /\ result' = paths
                /\ stack' = <<>>
                /\ UNCHANGED <<address_filepaths, chems_filepaths, pxdata_filenames, i, j>>
           ELSE /\ UNCHANGED result
                /\ address_filepaths' =
                       IF f = "get_address_data_filepaths" THEN paths ELSE address_filepaths
                /\ chems_filepaths' =
                       IF f = "get_chems_data_filepaths" THEN paths ELSE chems_filepaths
                /\ pxdata_filenames' =
                       IF f = "get_prescription_data_filepaths" THEN paths ELSE pxdata_filenames
                /\ IF f = "get_address_data_filepaths"
                   THEN /\ stack' = <<"check_data", "get_chems_data_filepaths", PrefixesFn>>
                        /\ pc' = "range_assert"
                        /\ UNCHANGED <<i, j>>
                   ELSE IF f = "get_chems_data_filepaths"
                   THEN /\ stack' = <<"check_data", "get_prescription_data_filepaths", PrefixesFn>>
                        /\ pc' = "range_assert"
                        /\ UNCHANGED <<i, j>>
                   ELSE /\ stack' = <<"check_data">>
                        /\ pc' = "check"
                        /\ i' = 0
                        /\ j' = 1
    /\ UNCHANGED <<args, current_year, current_month, filepaths, prefixes, checked,
                   stdout, calls, file, err>>

\* one file_check call of check_data's loop; os.path.isfile answers either way
FileCheck(exists) ==
    /\ pc = "check"
    /\ i < Len(address_filepaths)
    /\ exists \/ Len(stdout) < MaxMissing
    /\ LET filepath == CheckOrder(i)[j]
       IN  /\ checked' = Append(checked, [path |-> filepath, exists |-> exists])
           /\ stdout' = IF exists THEN stdout
                        ELSE Append(stdout, "WARNING: File not found - " \o filepath)
    /\ j' = IF j = 3 THEN 1 ELSE j + 1
    /\ i' = IF j = 3 THEN i + 1 ELSE i
    /\ UNCHANGED <<pc, stack, args, current_year, current_month, filepaths, prefixes,
                   address_filepaths, chems_filepaths, pxdata_filenames, calls, file,
                   result, err>>

\* range(0, len(address_filepaths)) is exhausted: check_data returns None
CheckReturn ==
    /\ pc = "check"
    /\ i >= Len(address_filepaths)
    /\ pc' = "returned"
    /\ result' = None
    /\ stack' = <<>>
    /\ UNCHANGED <<args, current_year, current_month, filepaths, prefixes,
                   address_filepaths, chems_filepaths, pxdata_filenames, i, j, checked,
                   stdout, calls, file, err>>

\* the caller's choice of a function and its arguments, made when no call is running
Call ==
    /\ pc = "idle"
    /\ \/ \E year \in SingleYears, month \in MonthsIn : CallGetFilePathPrefix(year, month)
       \/ \E f \in SingleFns, year \in SingleYears, month \in MonthsIn :
              CallGetDataFilepath(f, year, month)
       \/ \E f \in LoadFns, year \in SingleYears, month \in MonthsIn :
              \E csv \in FilesOf(f) : CallLoad(f, year, month, csv)
       \/ \E f \in RangeFns \ {"check_data"}, year_from \in RangeYears,
             month_from \in MonthsIn, year_to \in RangeYears, month_to \in MonthsIn :
              CallRange(f, year_from, month_from, year_to, month_to)
       \/ \E year_from \in CheckYears, month_from \in MonthsIn,
             year_to \in CheckYears, month_to \in MonthsIn :
              CallRange("check_data", year_from, month_from, year_to, month_to)

Next ==
    \/ Call
    \/ RangeAssert
    \/ LoopIteration
    \/ LoopReturn
    \/ MapReturn
    \/ \E exists \in BOOLEAN : FileCheck(exists)
    \/ CheckReturn

Spec == Init /\ [][Next]_vars

\* the interpreter runs a started call on: every step of a call is eventually taken
FairSpec ==
    Spec /\ WF_vars(RangeAssert \/ LoopIteration \/ LoopReturn \/ MapReturn
                    \/ (\E exists \in BOOLEAN : FileCheck(exists)) \/ CheckReturn)

---------------------------------------------------------------------------
(* Vocabulary of the properties: the DateMonth of the specification, the    *)
(* calendar and the documented file layout, written without the program's   *)
(* own functions.                                                           *)

Done == pc \in {"returned", "raised"}

ValidDateMonth(year, month) ==
    year \in MinYear..MaxYear /\ month \in 1..12

\* (year_a, month_a) is strictly after (year_b, month_b) in calendar order
After(year_a, month_a, year_b, month_b) ==
    year_a > year_b \/ (year_a = year_b /\ month_a > month_b)

MonthsInRange(a) == (a.year_to - a.year_from) * 12 + (a.month_to - a.month_from) + 1

\* the n-th calendar month counted from (year, month), n = 0 being that month itself
NthYear(year, month, n) == (year * 12 + (month - 1) + n) \div 12
NthMonth(year, month, n) == ((year * 12 + (month - 1) + n) % 12) + 1

ValidRange(a) ==
    /\ ValidDateMonth(a.year_from, a.month_from)
    /\ ValidDateMonth(a.year_to, a.month_to)
    /\ ~After(a.year_from, a.month_from, a.year_to, a.month_to)

FullMonthName(month) ==
    CASE month = 1 -> "January" [] month = 2 -> "February" [] month = 3 -> "March"
      [] month = 4 -> "April" [] month = 5 -> "May" [] month = 6 -> "June"
      [] month = 7 -> "July" [] month = 8 -> "August" [] month = 9 -> "September"
      [] month = 10 -> "October" [] month = 11 -> "November" [] month = 12 -> "December"

Digit(d) == <<"0", "1", "2", "3", "4", "5", "6", "7", "8", "9">>[d + 1]

\* YYYY and MM of the directory and file names, digit by digit
FourDigits(year) ==
    Digit(year \div 1000) \o Digit((year \div 100) % 10)
        \o Digit((year \div 10) % 10) \o Digit(year % 10)
TwoDigits(month) == Digit(month \div 10) \o Digit(month % 10)

\* <root>/<YYYY>_<MM>_<FullMonthName>/T<YYYY><MM>
DocumentedPrefix(year, month) ==
    "./full_data/" \o FourDigits(year) \o "_" \o TwoDigits(month) \o "_"
        \o FullMonthName(month) \o "/T" \o FourDigits(year) \o TwoDigits(month)

DocumentedSuffix(kind) ==
    CASE kind = 1 -> "ADDR BNFT.CSV" [] kind = 2 -> "CHEM SUBS.CSV" [] kind = 3 -> "PDPI BNFT.CSV"

---------------------------------------------------------------------------
(* Properties *)

\* C1: for every valid from and to DateMonth with from not after to (to-month 12
\* and from = to included), get_data_filepath_prefixes returns a list of exactly
\* (year_to - year_from) * 12 + (month_to - month_from) + 1 prefixes, the n-th
\* being the prefix of the n-th calendar month counted from the from month.
C1_InclusiveRange ==
    (args.f = PrefixesFn /\ Done /\ ValidRange(args)) =>
        /\ pc = "returned"
        /\ Len(result) = MonthsInRange(args)
        /\ \A n \in 1..Len(result) :
               result[n] = DocumentedPrefix(NthYear(args.year_from, args.month_from, n - 1),
                                            NthMonth(args.year_from, args.month_from, n - 1))

\* C3: a call of get_data_filepath_prefixes ends with the range error exactly when
\* the from DateMonth is strictly after the to DateMonth in calendar order; the
\* range error is raised before any prefix is computed, whatever else is wrong
\* with the arguments, and nothing is returned.
C3_RangeError ==
    (args.f = PrefixesFn /\ Done) =>
        /\ (err = "range") <=>
               After(args.year_from, args.month_from, args.year_to, args.month_to)
        /\ (err = "range") => (pc = "raised" /\ result = None /\ calls = 0)

\* a from-after-to call whose from year is also out of bounds has ended with the range error
C3_Witness ==
    /\ args.f = PrefixesFn
    /\ pc = "raised"
    /\ err = "range"
    /\ calls = 0
    /\ args.year_from > MaxYear
    /\ args.year_from > args.year_to

\* C4: every call of get_data_filepath_prefixes, of a get_*_data_filepaths range
\* function or of check_data with an invalid year or month among its four
\* arguments fails with an error and returns nothing.
C4_InvalidArgumentFails ==
    (args.f \in RangeFns /\ Done
        /\ ~(ValidDateMonth(args.year_from, args.month_from)
                /\ ValidDateMonth(args.year_to, args.month_to))) =>
        (pc = "raised" /\ err # "none" /\ result = None)

\* C5: get_file_path_prefix(year, month) returns a prefix if and only if
\* 2010 <= year <= 3000 and 1 <= month <= 12; otherwise it fails and returns
\* nothing, with the year failure whenever the year is out of range and the
\* month failure when only the month is.
C5_PrefixValidation ==
    (args.f = "get_file_path_prefix" /\ Done) =>
        /\ (pc = "returned") <=> (2010 <= args.year /\ args.year <= 3000
                                    /\ 1 <= args.month /\ args.month <= 12)
        /\ (pc = "returned") => (err = "none" /\ result # None)
        /\ (pc = "raised") => result = None
        /\ (args.year < 2010 \/ args.year > 3000) => err = "year"
        /\ (2010 <= args.year /\ args.year <= 3000 /\ (args.month < 1 \/ args.month > 12))
               => err = "month"

\* year and month both out of range: the call has failed with the year failure
C5_Witness ==
    /\ args.f = "get_file_path_prefix"
    /\ pc = "raised"
    /\ err = "year"
    /\ args.year = 3001
    /\ args.month = 13

\* C6: for every valid (year, month), get_file_path_prefix returns exactly
\* root_data_dir followed by <year>_<MM>_<FullMonthName>/T<year><MM>, and no other
\* valid DateMonth yields the same prefix.
C6_PrefixFormat ==
    (args.f = "get_file_path_prefix" /\ pc = "returned") =>
        /\ result = DocumentedPrefix(args.year, args.month)
        /\ \A year \in SingleYears, month \in 1..12 :
               (ValidDateMonth(year, month) /\ <<year, month>> # <<args.year, args.month>>)
                   => get_file_path_prefix(year, month).val # result

\* the call for April 2013 has returned the path of the documented example
C6_Witness ==
    /\ args.f = "get_file_path_prefix"
    /\ pc = "returned"
    /\ args.year = 2013
    /\ args.month = 4
    /\ result = "./full_data/2013_04_April/T201304"

\* the documented path of the file of kind k (1 address, 2 chemicals, 3 prescription)
\* of the n-th month of the range a, n = 0 being the from month
DocumentedPath(a, n, k) ==
    DocumentedPrefix(NthYear(a.year_from, a.month_from, n),
                     NthMonth(a.year_from, a.month_from, n)) \o DocumentedSuffix(k)

\* the file_check calls made so far are, in order, address, chemicals, prescription
\* of the from month, then of the next month, and so on
ChecksInOrder ==
    \A k \in 1..Len(checked) :
        checked[k].path = DocumentedPath(args, (k - 1) \div 3, ((k - 1) % 3) + 1)

\* the lines printed so far are the warnings of the absent files, one each, in order
RECURSIVE WarningsOf(_)
WarningsOf(cs) ==
    IF cs = <<>> THEN <<>>
    ELSE LET rest == WarningsOf(SubSeq(cs, 1, Len(cs) - 1))
             last == cs[Len(cs)]
         IN  IF last.exists THEN rest
             ELSE Append(rest, "WARNING: File not found - " \o last.path)

\* C2: for every valid range and every state of the filesystem, check_data returns
\* normally, having checked the three files of every month of the range and having
\* printed exactly one warning per absent file and none for a file that exists.
C2_CheckDataCompletes ==
    (args.f = "check_data" /\ Done /\ ValidRange(args)) =>
        /\ pc = "returned"
        /\ Len(checked) = 3 * MonthsInRange(args)
        /\ ChecksInOrder
        /\ stdout = WarningsOf(checked)

\* the single-month function and the kind of file of a range function
SingleFnOf(f) ==
    CASE f = "get_address_data_filepaths" -> "get_address_data_filepath"
      [] f = "get_chems_data_filepaths" -> "get_chems_data_filepath"
      [] f = "get_prescription_data_filepaths" -> "get_prescription_data_filepath"

KindOf(f) ==
    CASE f = "get_address_data_filepaths" -> 1
      [] f = "get_chems_data_filepaths" -> 2
      [] f = "get_prescription_data_filepaths" -> 3

\* C7: whenever a get_*_data_filepaths range function returns, its list has the
\* length and order of the prefix list, and its n-th entry is what the matching
\* single-month function returns for the n-th month of the range: the n-th prefix
\* followed by the function's suffix.
C7_RangePathsMatchSingle ==
    (args.f \in MapFns /\ pc = "returned") =>
        /\ Len(result) = Len(filepaths)
        /\ \A n \in 1..Len(result) :
               LET single == SingleOutcome(SingleFnOf(args.f),
                                           NthYear(args.year_from, args.month_from, n - 1),
                                           NthMonth(args.year_from, args.month_from, n - 1))
               IN  /\ single.err = "none"
                   /\ result[n] = single.val
                   /\ result[n] = filepaths[n] \o DocumentedSuffix(KindOf(args.f))

\* a chemicals path list running over a year end has been returned
C7_Witness ==
    /\ args.f = "get_chems_data_filepaths"
    /\ pc = "returned"
    /\ args.year_from < args.year_to
    /\ Len(result) >= 3
    /\ result[1] = "./full_data/2999_12_December/T299912CHEM SUBS.CSV"
    /\ result[2] = "./full_data/3000_01_January/T300001CHEM SUBS.CSV"

\* the values of a loaded record, the date cell excepted, are those of the file's row
SameRow(record, row, names, datecol) ==
    /\ Len(record) = Len(names)
    /\ \A c \in 1..Len(names) :
           /\ record[c][1] = names[c]
           /\ IF c = datecol
              THEN record[c][2] = <<row[c].n \div 100, row[c].n % 100, 1>>
              ELSE record[c][2] = row[c]

\* every row the loader keeps as data has a YYYYMM number in its date cell
WellFormed(f, rows) ==
    CASE f = "load_address_data" -> \A r \in 1..Len(rows) : DateOk(rows[r][1])
      [] f = "load_chems_data" -> TRUE
      [] f = "load_prescription_data" -> \A r \in 2..Len(rows) : DateOk(rows[r][10])

\* C8: for a well-formed CSV of n >= 1 rows at the computed path, load_address_data
\* returns n records in file order, the first row included, while load_chems_data
\* and load_prescription_data return n - 1 records in file order, the first row and
\* no other left out; the columns carry the 8, 2 and 10 fixed names in order.
C8_LoaderRowCounts ==
    (args.f \in LoadFns /\ Done /\ ValidDateMonth(args.year, args.month)
        /\ file.exists /\ Len(file.rows) >= 1 /\ WellFormed(args.f, file.rows)) =>
        /\ pc = "returned"
        /\ args.f = "load_address_data" =>
               /\ Len(result) = Len(file.rows)
               /\ \A r \in 1..Len(result) :
                      SameRow(result[r], file.rows[r],
                              <<"Year-Month", "PracticeCode", "PracticeName", "Addr1",
                                "Addr2", "Addr3", "Addr4", "PostCode">>, 1)
        /\ args.f = "load_chems_data" =>
               /\ Len(result) = Len(file.rows) - 1
               /\ \A r \in 1..Len(result) :
                      SameRow(result[r], file.rows[r + 1], <<"ChemCode", "ChemName">>, 0)
        /\ args.f = "load_prescription_data" =>
               /\ Len(result) = Len(file.rows) - 1
               /\ \A r \in 1..Len(result) :
                      SameRow(result[r], file.rows[r + 1],
                              <<"SHA", "PCT", "PracticeCode", "BNFCode", "BNFName",
                                "LineCountDispensed", "NetCost", "ActualCost",
                                "QuantityDispensed", "Year-Month">>, 10)

\* a chemicals file of a header line and two data rows has been loaded as two records
C8_Witness ==
    /\ args.f = "load_chems_data"
    /\ pc = "returned"
    /\ Len(file.rows) = 3
    /\ file.rows[1] = <<"CHEM SUB", "NAME">>
    /\ Len(result) = 2
    /\ result[1] = <<<<"ChemCode", "0101010A0">>, <<"ChemName", "Alexitol Sodium">>>>

Max(a, b) == IF a >= b THEN a ELSE b

\* C9: every call of get_data_filepath_prefixes terminates: the loop is left, by the
\* return or by an assertion failure, after at most 12 completed iterations per year
\* from the from year (2010 at the least) up to 3000, the year never passing 3001.
C9_LoopTerminates ==
    /\ [](pc = "loop" =>
            /\ current_year <= MaxYear + 1
            /\ Len(filepaths) <= 12 * (MaxYear + 1 - Max(args.year_from, MinYear))
            /\ Len(filepaths) <= 12 * (3001 - 2010))
    /\ (pc = "loop") ~> (pc # "loop")

\* a call whose exit test is never met has been ended by the year validation at 3001
C9_Witness ==
    /\ args.f = PrefixesFn
    /\ pc = "raised"
    /\ err = "year"
    /\ args.month_to = 13
    /\ ValidDateMonth(args.year_from, args.month_from)
    /\ current_year = 3001
    /\ Len(filepaths) >= 12

\* C10: check_data builds its three path lists before it checks any file: a call
\* that raises has checked no file and printed nothing, and the files are checked in
\* the order address, chemicals, prescription, month by month.
C10_PathsBeforeChecks ==
    (args.f = "check_data") =>
        /\ (pc = "raised") => (checked = <<>> /\ stdout = <<>>)
        /\ (checked # <<>>) =>
               /\ pc \in {"check", "returned"}
               /\ Len(chems_filepaths) = Len(address_filepaths)
               /\ Len(pxdata_filenames) = Len(address_filepaths)
               /\ Len(checked) <= 3 * Len(address_filepaths)
        /\ ChecksInOrder

\* check_data has gone on to the second month after a warning for the first
C10_Witness ==
    /\ args.f = "check_data"
    /\ pc = "check"
    /\ Len(checked) = 4
    /\ ~checked[2].exists
    /\ stdout = <<"WARNING: File not found - ./full_data/3000_01_January/T300001CHEM SUBS.CSV">>
    /\ checked[4].path = "./full_data/3000_02_February/T300002ADDR BNFT.CSV"

====
